---- MODULE Spec2Model ----
(***************************************************************************)
(* Task-event notification pipeline of TaskUno_Backend.                    *)
(*                                                                         *)
(*   tasks-service  : TaskService.create_task / update_task / delete_task  *)
(*                    -> RedisEventQueue.enqueue_task_event (rpush)        *)
(*   Redis list     : "task-events-queue"                                  *)
(*   email-service  : EmailWorker.start (blpop loop), process_event,       *)
(*                    send_task_notification_email                         *)
(*                                                                         *)
(* Python values are modelled as strings; None is the string "None".       *)
(***************************************************************************)
EXTENDS FiniteSets, Integers, Naturals, Sequences, TLC

\* ------------------------------------------------------------------ bounds
MaxEntries == 3
MaxSharedEntries == 2
MaxOutages == 1
MaxOps == 2
MaxFailCount == 2
MaxMails == 1
MaxBeats == 2

\* --------------------------------------------------------------- constants
QUEUE_BLOCKING_TIMEOUT == 5
RECONNECT_SLEEP == 5
GENERIC_SLEEP == 2
OTHER_SLEEP == 1
max_retries == 3
get_pending_limit == 10

None == "None"
Client == "client"

Workers == {"w1", "w2"}
SingleWorker == {"w1"}

VARIABLES
    brokerUp,          \* the Redis server is reachable
    outages,           \* number of times the broker went down (bounded)
    queue,             \* the Redis list task-events-queue, head first
    nextSeq,           \* number of entries ever appended (ghost identity)
    ts_redis_client,   \* tasks-service common.cache.redis_client._redis_client
    tasks,             \* tasks-service task table
    lastId,            \* last id the task table's autoincrement handed out
    task_log,          \* number of rows of the task_log table
    audit_log,         \* number of rows of the audit log table
    req,               \* tasks-service requests in flight / finished
    opCount,           \* number of task requests accepted so far
    everDown,          \* ghost: the broker was unreachable at some point
    smtpConfigured,    \* email-service settings: SMTP_HOST/USER/PASSWORD all set
    es_redis_client,   \* per worker process: email-service _redis_client
    redis_client,      \* per worker: local variable redis_client of start()
    running,           \* per worker: EmailWorker.running
    wpc,               \* per worker: position in EmailWorker.start
    current,           \* per worker: entry popped and not yet fully dispatched
    pending,           \* per worker: exception being handled / dispatch state
    stopRequested,     \* ghost, per worker: a stop was requested
    handlerTrace,      \* ghost, per worker: steps of the last exception handler
    failedReconnects,  \* ghost, per worker: consecutive failed reconnects
    startResult,       \* ghost, per worker: how the initial connection went
    lastPop,           \* ghost, per worker: how the last blpop call ended
    popLog,            \* ghost: worker, seq and decodability of every successful pop
    dispatchLog,       \* ghost: every completed process_event call
    sendLog,           \* ghost: every call of send_task_notification_email
    email_queue,       \* monolith: rows of the email_queue table, by id
    celery_messages,   \* monolith: task messages waiting in the Celery broker
    celery_exec,       \* monolith, per Celery worker: the task it is executing
    mailCount,         \* monolith: number of EmailService.queue_email calls
    beatCount,         \* monolith: number of ticks of the beat schedule
    smtp_log,          \* ghost: every SMTP send attempt of EmailService.send_email
    celery_results     \* ghost: every finished execution of send_email_task

brokerVars == <<brokerUp, outages, everDown>>
queueVars  == <<queue, nextSeq>>
tsVars     == <<ts_redis_client, tasks, lastId, task_log, audit_log, req, opCount>>
workerVars == <<es_redis_client, redis_client, running, wpc, current, pending,
                stopRequested, handlerTrace, failedReconnects,
                startResult, lastPop>>
logVars    == <<popLog, dispatchLog, sendLog>>
celeryVars == <<email_queue, celery_messages, celery_exec, mailCount, beatCount,
                smtp_log, celery_results>>
vars == <<brokerVars, queueVars, tsVars, smtpConfigured, workerVars, logVars,
          celeryVars>>

\* ------------------------------------------------------------ Redis client
\* common/cache/redis_client.py initialize_redis: build a client and ping.
\* Returns the new value of the module-level _redis_client.
initialize_redis(up) == IF up THEN Client ELSE None

\* common/cache/redis_client.py get_redis_client: initialise when unset.
get_redis_client_no_retry(client, up) == client
get_redis_client(client, up) == IF client = None THEN initialize_redis(up) ELSE client

\* ---------------------------------------------------------------- JSON
DateTimes == {"datetime(2026-01-01 00:00)"}

\* json.dumps of one Python value: None -> null, a datetime has no encoding.
JsonEncodable(v) == v \notin DateTimes
JsonAtom(v) == IF v = None THEN "null" ELSE v
PyAtom_raw(j) == j
PyAtom(j) == IF j = "null" THEN None ELSE j

ChangeEncodable(c) == JsonEncodable(c.old) /\ JsonEncodable(c.new)
JsonChange(c) == [kind |-> c.kind, old |-> JsonAtom(c.old), new |-> JsonAtom(c.new)]
PyChange(c) == [kind |-> c.kind, old |-> PyAtom(c.old), new |-> PyAtom(c.new)]

AtomKeys(d) == DOMAIN d \ {"changes"}

\* json.dumps(event): TRUE when every value of the dict is serialisable.
JsonDumpsOk(event) ==
    /\ \A k \in AtomKeys(event) : JsonEncodable(event[k])
    /\ "changes" \in DOMAIN event =>
          \A f \in DOMAIN event.changes : ChangeEncodable(event.changes[f])

\* The text json.dumps produces, as the JSON object it denotes.
JsonDumps(event) ==
    [kind |-> "object",
     obj  |-> [k \in DOMAIN event |->
                  IF k = "changes"
                  THEN [f \in DOMAIN event[k] |-> JsonChange(event[k][f])]
                  ELSE JsonAtom(event[k])]]

Garbage == [kind |-> "garbage", obj |-> [k \in {} |-> None]]

\* json.loads(text): raises on text that is not JSON.
JsonLoadsOk(text) == text.kind = "object"
JsonLoads(text) ==
    [k \in DOMAIN text.obj |->
        IF k = "changes"
        THEN [f \in DOMAIN text.obj[k] |-> PyChange(text.obj[k][f])]
        ELSE PyAtom(text.obj[k])]

\* dict.get(key) / dict.get(key, default)
Get(d, k) == IF k \in DOMAIN d THEN d[k] ELSE None
Truthy_notnone(v) == v # None
Truthy(v) == v # None /\ v # ""

\* --------------------------------------------------------------- producer
NoChanges == [f \in {} |-> None]

\* redis_queue.py lines 49-65: the event dict built from the arguments.
BuildEvent(a) ==
    [event_type |-> a.event_type, task_id |-> a.task_id,
     task_title |-> a.task_title,
     assigned_to_id |-> a.assigned_to_id, reporting_to_id |-> a.reporting_to_id,
     assigned_to_email |-> a.assigned_to_email,
     reporting_to_email |-> a.reporting_to_email,
     updated_by_id |-> a.updated_by_id, updated_by_email |-> a.updated_by_email,
     updated_by_role |-> a.updated_by_role,
     organization_id |-> a.organization_id,
     organization_name |-> a.organization_name,
     changes |-> a.changes, reason |-> a.reason,
     timestamp |-> "utcnow"]

\* RedisEventQueue.enqueue_task_event, as a function of the module-level
\* client, the broker and the arguments.  Result: the new _redis_client, the
\* texts appended to the list, how the call ended, whether an exception
\* left the call, and (ghost) the event dict it built.
enqueue_task_event(client, up, a) ==
    LET c == get_redis_client(client, up) IN
    IF c = None
    THEN [client |-> c, pushed |-> <<>>, how |-> "no_client", raised |-> FALSE,
          event |-> NoChanges]
    ELSE IF ~JsonDumpsOk(BuildEvent(a))
    THEN [client |-> c, pushed |-> <<>>, how |-> "dumps_error", raised |-> FALSE,
          event |-> BuildEvent(a)]
    ELSE IF ~up
    THEN [client |-> c, pushed |-> <<>>, how |-> "rpush_error", raised |-> FALSE,
          event |-> BuildEvent(a)]
    ELSE [client |-> c, pushed |-> <<JsonDumps(BuildEvent(a))>>,
          how |-> "appended", raised |-> FALSE, event |-> BuildEvent(a)]

\* rpush: append at the tail of the list.
rpush_bounded(q, e) == IF q = <<>> THEN Append(q, e) ELSE Append(Tail(q), e)
rpush_head(q, e) == <<e>> \o q
rpush(q, e) == Append(q, e)

MkEntry(n, src, op, text) == [seq |-> n, src |-> src, op |-> op, text |-> text]

RECURSIVE PushAll(_, _, _, _, _)
PushAll(q, n, src, op, texts) ==
    IF texts = <<>> THEN q
    ELSE PushAll(rpush(q, MkEntry(n + 1, src, op, Head(texts))), n + 1, src, op,
                 Tail(texts))

\* ------------------------------------------------------------------ broker
\* The Redis server becomes unreachable / reachable again (environment).
BrokerDown ==
    /\ brokerUp /\ outages < MaxOutages
    /\ brokerUp' = FALSE /\ outages' = outages + 1 /\ everDown' = TRUE
    /\ UNCHANGED <<queueVars, tsVars, smtpConfigured, celeryVars, workerVars, logVars>>

BrokerRestore ==
    /\ ~brokerUp
    /\ brokerUp' = TRUE
    /\ UNCHANGED <<outages, everDown, queueVars, tsVars, smtpConfigured, celeryVars,
                   workerVars, logVars>>

\* ------------------------------------------------- direct producer calls
Emails == {"dev7@x.com", "po3@x.com"}

EnvelopeArgs(kind, tid, title, aid, rid, ae, re, uid, ue, role, org, ch, reason) ==
    [event_type |-> kind, task_id |-> tid, task_title |-> title,
     assigned_to_id |-> aid, reporting_to_id |-> rid,
     assigned_to_email |-> ae, reporting_to_email |-> re,
     updated_by_id |-> uid, updated_by_email |-> ue, updated_by_role |-> role,
     organization_id |-> "1", organization_name |-> org,
     changes |-> ch, reason |-> reason]

\* Calls of redis_queue.enqueue_task_event with each shape of recipients.
BothRecipients ==
    { EnvelopeArgs("task_created", "42", "Fix login bug", "7", "3", "dev7@x.com",
                   "po3@x.com", "3", "po3@x.com", "Product Owner", "Acme", NoChanges,
                   None) }

DirectArgs ==
    { EnvelopeArgs("task_created", "42", "Fix login bug", "7", "3", ae, re,
                   "3", "po3@x.com", "Product Owner", "Acme", NoChanges, None) :
        ae \in {None, "", "dev7@x.com"}, re \in {None, "", "po3@x.com"} }

\* One call of redis_queue.enqueue_task_event(...) (redis_queue.py 26-73).
EnqueueTaskEvent(args, max) ==
    /\ nextSeq < max
    /\ \E a \in args :
          LET r == enqueue_task_event(ts_redis_client, brokerUp, a) IN
          /\ ts_redis_client' = r.client
          /\ queue' = PushAll(queue, nextSeq, "producer", 0, r.pushed)
          /\ nextSeq' = nextSeq + Len(r.pushed)
    /\ UNCHANGED <<brokerVars, tasks, lastId, task_log, audit_log, req, opCount,
                   smtpConfigured, celeryVars, workerVars, logVars>>

\* Another client of the same Redis list pushes a text that is not an
\* envelope: not JSON at all, or a JSON object without task_id / event_type.
ForeignTexts ==
    { Garbage,
      [kind |-> "object",
       obj |-> [assigned_to_email |-> "dev7@x.com",
                reporting_to_email |-> "po3@x.com"]] }

RawPush(texts, max) ==
    /\ brokerUp /\ nextSeq < max
    /\ \E t \in texts :
          queue' = PushAll(queue, nextSeq, "foreign", 0, <<t>>)
    /\ nextSeq' = nextSeq + 1
    /\ UNCHANGED <<brokerVars, tsVars, smtpConfigured, celeryVars, workerVars, logVars>>

\* ------------------------------------------------------------ dispatcher
SmtpOutcomes == {"sent", "SMTPAuthenticationError", "ConnectionError", "Exception"}
SmtpSentOnly == {"sent"}

\* email_sender.send_task_notification_email: the value returned for one
\* recipient, whether an SMTP connection was opened, and whether an
\* exception left the call.  With SMTP unconfigured the would-be send is
\* logged; the log line reads the undefined name `body`, the NameError is
\* caught by the outer handler (line 411) and False is returned.
send_raises_on_failure(configured, outcome) ==
    IF ~configured
    THEN [result |-> "False", smtp |-> FALSE, raised |-> FALSE]
    ELSE [result |-> IF outcome = "sent" THEN "True" ELSE "False",
          smtp |-> TRUE, raised |-> outcome # "sent"]
send_task_notification_email(configured, outcome) ==
    IF ~configured
    THEN [result |-> "False", smtp |-> FALSE, raised |-> FALSE]
    ELSE IF outcome = "sent"
    THEN [result |-> "True", smtp |-> TRUE, raised |-> FALSE]
    ELSE [result |-> "False", smtp |-> TRUE, raised |-> FALSE]

\* EmailWorker.process_event, lines 108 and 159-162: an exception raised
\* inside the body is caught and logged, never re-raised.
process_event_raises(bodyRaised) == FALSE

\* EmailWorker.process_event has no return statement: the values the two
\* send calls return are dropped and the caller gets None.
process_event_return == None

\* ---------------------------------------------------------------- worker
NoEntry == [seq |-> 0, src |-> "none", op |-> 0, text |-> Garbage]

TransportErrors == {"TimeoutError", "ConnectionError", "OSError"}

Sleep(n) == [op |-> "sleep", secs |-> n]
Reconnect == [op |-> "reconnect", secs |-> 0]

\* The except clause of the loop (email_consumer.py 69-102) for exception
\* class exc: the new module-level client, the new local redis_client, the
\* steps taken in order, whether a reconnect was attempted and failed, and
\* the value of self.running afterwards.
handle_exception_giveup(exc, local, up, run) ==
    LET c == initialize_redis(up) IN
    IF exc = "TimeoutError"
    THEN [es |-> c, local |-> IF c # None THEN c ELSE local,
          trace |-> IF c = None THEN <<Reconnect, Sleep(RECONNECT_SLEEP)>>
                    ELSE <<Reconnect>>,
          failed |-> c = None, running |-> IF c = None THEN FALSE ELSE run]
    ELSE IF exc = "ConnectionError"
    THEN [es |-> c, local |-> IF c # None THEN c ELSE local,
          trace |-> <<Sleep(RECONNECT_SLEEP), Reconnect>>,
          failed |-> c = None, running |-> IF c = None THEN FALSE ELSE run]
    ELSE IF exc = "OSError"
    THEN [es |-> c, local |-> IF c # None THEN c ELSE local,
          trace |-> <<Sleep(GENERIC_SLEEP), Reconnect>>,
          failed |-> c = None, running |-> IF c = None THEN FALSE ELSE run]
    ELSE [es |-> "keep", local |-> local, trace |-> <<Sleep(OTHER_SLEEP)>>,
          failed |-> FALSE, running |-> run]
handle_exception_backoff_first(exc, local, up, run) ==
    LET c == initialize_redis(up) IN
    IF exc \in {"TimeoutError", "ConnectionError"}
    THEN [es |-> c, local |-> IF c # None THEN c ELSE local,
          trace |-> <<Sleep(RECONNECT_SLEEP), Reconnect>>,
          failed |-> c = None, running |-> run]
    ELSE IF exc = "OSError"
    THEN [es |-> c, local |-> IF c # None THEN c ELSE local,
          trace |-> <<Sleep(GENERIC_SLEEP), Reconnect>>,
          failed |-> c = None, running |-> run]
    ELSE [es |-> "keep", local |-> local, trace |-> <<Sleep(OTHER_SLEEP)>>,
          failed |-> FALSE, running |-> run]
handle_exception_fatal(exc, local, up, run) ==
    LET c == initialize_redis(up) IN
    IF exc = "TimeoutError"
    THEN [es |-> c, local |-> IF c # None THEN c ELSE local,
          trace |-> IF c = None THEN <<Reconnect, Sleep(RECONNECT_SLEEP)>>
                    ELSE <<Reconnect>>,
          failed |-> c = None, running |-> run]
    ELSE IF exc = "ConnectionError"
    THEN [es |-> c, local |-> IF c # None THEN c ELSE local,
          trace |-> <<Sleep(RECONNECT_SLEEP), Reconnect>>,
          failed |-> c = None, running |-> run]
    ELSE IF exc = "OSError"
    THEN [es |-> c, local |-> IF c # None THEN c ELSE local,
          trace |-> <<Sleep(GENERIC_SLEEP), Reconnect>>,
          failed |-> c = None, running |-> run]
    ELSE [es |-> "keep", local |-> local, trace |-> <<Sleep(OTHER_SLEEP)>>,
          failed |-> FALSE, running |-> FALSE]
handle_exception(exc, local, up, run) ==
    LET c == initialize_redis(up) IN
    IF exc = "TimeoutError"
    THEN [es |-> c, local |-> IF c # None THEN c ELSE local,
          trace |-> IF c = None THEN <<Reconnect, Sleep(RECONNECT_SLEEP)>>
                    ELSE <<Reconnect>>,
          failed |-> c = None, running |-> run]
    ELSE IF exc = "ConnectionError"
    THEN [es |-> c, local |-> IF c # None THEN c ELSE local,
          trace |-> <<Sleep(RECONNECT_SLEEP), Reconnect>>,
          failed |-> c = None, running |-> run]
    ELSE IF exc = "OSError"
    THEN [es |-> c, local |-> IF c # None THEN c ELSE local,
          trace |-> <<Sleep(GENERIC_SLEEP), Reconnect>>,
          failed |-> c = None, running |-> run]
    ELSE [es |-> "keep", local |-> local, trace |-> <<Sleep(OTHER_SLEEP)>>,
          failed |-> FALSE, running |-> run]

\* blpop: what is left of the list after a successful pop.
blpop_peek(q) == q
blpop_rest(q) == Tail(q)
\* blpop: the element a successful pop returns.
blpop_tail(q) == q[Len(q)]
blpop_item(q) == Head(q)

\* EmailWorker.start lines 36-42: what start does when the initial
\* connection cannot be made ("return" in the code).
start_on_failure_continue == "loop"
start_on_failure == "exited"

\* start_email_worker (main.py 52-57): the thread constructs the worker
\* (running = False) and calls start().
WorkerStart(w) ==
    /\ wpc[w] = "idle"
    /\ wpc' = [wpc EXCEPT ![w] = "starting"]
    /\ running' = [running EXCEPT ![w] = FALSE]
    /\ UNCHANGED <<brokerVars, queueVars, tsVars, smtpConfigured, celeryVars, es_redis_client,
                   redis_client, current, pending, stopRequested, handlerTrace,
                   failedReconnects, startResult, lastPop, logVars>>

\* EmailWorker.start lines 36-48: connect, or log and return.
WorkerInit(w) ==
    /\ wpc[w] = "starting"
    /\ LET c == initialize_redis(brokerUp) IN
       /\ es_redis_client' = [es_redis_client EXCEPT ![w] = c]
       /\ startResult' = [startResult EXCEPT
             ![w] = IF c = None THEN "failed" ELSE "connected"]
       /\ IF c = None
          THEN /\ wpc' = [wpc EXCEPT ![w] = start_on_failure]
               /\ running' = [running EXCEPT
                     ![w] = IF start_on_failure = "exited" THEN running[w] ELSE TRUE]
               /\ UNCHANGED redis_client
          ELSE /\ wpc' = [wpc EXCEPT ![w] = "loop"]
               /\ running' = [running EXCEPT ![w] = TRUE]
               /\ redis_client' = [redis_client EXCEPT ![w] = c]
    /\ UNCHANGED <<brokerVars, queueVars, tsVars, smtpConfigured, celeryVars, current, pending,
                   stopRequested, handlerTrace, failedReconnects, lastPop, logVars>>

\* `while self.running:` (line 50) and the log line after the loop (104).
LoopCheck(w) ==
    /\ wpc[w] = "loop"
    /\ wpc' = [wpc EXCEPT ![w] = IF running[w] THEN "pop" ELSE "stopped"]
    /\ UNCHANGED <<brokerVars, queueVars, tsVars, smtpConfigured, celeryVars, es_redis_client,
                   redis_client, running, current, pending, stopRequested,
                   handlerTrace, failedReconnects, startResult, lastPop, logVars>>

\* redis_client.blpop(queue_name, timeout) (line 54): an entry, None after
\* the blocking timeout, or a transport exception while the broker is down.
Blpop(w) ==
    /\ wpc[w] = "pop"
    /\ IF ~brokerUp
       THEN /\ \E exc \in TransportErrors : pending' = [pending EXCEPT ![w] = exc]
            /\ wpc' = [wpc EXCEPT ![w] = "except"]
            /\ lastPop' = [lastPop EXCEPT ![w] = "error"]
            /\ UNCHANGED <<queue, current, popLog, failedReconnects>>
       ELSE IF queue = <<>>
       THEN /\ wpc' = [wpc EXCEPT ![w] = "loop"]
            /\ failedReconnects' = [failedReconnects EXCEPT ![w] = 0]
            /\ lastPop' = [lastPop EXCEPT ![w] = "idle"]
            /\ UNCHANGED <<queue, current, pending, popLog>>
       ELSE /\ current' = [current EXCEPT ![w] = blpop_item(queue)]
            /\ lastPop' = [lastPop EXCEPT ![w] = "entry"]
            /\ queue' = blpop_rest(queue)
            /\ popLog' = Append(popLog, [w |-> w, seq |-> blpop_item(queue).seq,
                                         decodable |-> JsonLoadsOk(blpop_item(queue).text)])
            /\ wpc' = [wpc EXCEPT ![w] = "popped"]
            /\ failedReconnects' = [failedReconnects EXCEPT ![w] = 0]
            /\ UNCHANGED pending
    /\ UNCHANGED <<brokerVars, nextSeq, tsVars, smtpConfigured, celeryVars, es_redis_client,
                   redis_client, running, stopRequested, handlerTrace, startResult,
                   dispatchLog, sendLog>>

\* except KeyboardInterrupt (lines 65-68).  The interrupt is raised wherever
\* the try block (52-63) happens to be: blocked in blpop, or inside
\* json.loads / process_event / an SMTP send, whose `except Exception`
\* clauses do not catch it.  The entry being dispatched is abandoned.
TryBlock == {"pop", "popped", "mid"}

KeyboardInterrupt(w) ==
    /\ wpc[w] \in TryBlock
    /\ running' = [running EXCEPT ![w] = FALSE]
    /\ stopRequested' = [stopRequested EXCEPT ![w] = TRUE]
    /\ wpc' = [wpc EXCEPT ![w] = "stopped"]
    /\ UNCHANGED <<brokerVars, queueVars, tsVars, smtpConfigured, celeryVars, es_redis_client,
                   redis_client, current, pending, handlerTrace,
                   failedReconnects, startResult, lastPop, logVars>>

\* except Exception (lines 69-102).
HandleException(w) ==
    /\ wpc[w] = "except"
    /\ LET h == handle_exception(pending[w], redis_client[w], brokerUp, running[w]) IN
       /\ es_redis_client' = [es_redis_client EXCEPT
             ![w] = IF h.es = "keep" THEN es_redis_client[w] ELSE h.es]
       /\ redis_client' = [redis_client EXCEPT ![w] = h.local]
       /\ handlerTrace' = [handlerTrace EXCEPT ![w] = h.trace]
       /\ running' = [running EXCEPT ![w] = h.running]
       /\ failedReconnects' = [failedReconnects EXCEPT
             ![w] = IF h.failed
                    THEN IF @ < MaxFailCount THEN @ + 1 ELSE @
                    ELSE @]
    /\ pending' = [pending EXCEPT ![w] = ""]
    /\ wpc' = [wpc EXCEPT ![w] = "loop"]
    /\ UNCHANGED <<brokerVars, queueVars, tsVars, smtpConfigured, celeryVars, current,
                   stopRequested, startResult, lastPop, logVars>>

SendRecord(w, e, to, rtype, r) ==
    [w |-> w, seq |-> e.seq, to |-> to, recipient_type |-> rtype,
     result |-> r.result, smtp |-> r.smtp]

\* Lines 56-59 and process_event lines 108-138: decode the popped text and
\* handle the assigned developer.
ProcessAssigned(w, outcomes) ==
    /\ wpc[w] = "popped"
    /\ IF ~JsonLoadsOk(current[w].text)
       THEN /\ pending' = [pending EXCEPT ![w] = "JSONDecodeError"]
            /\ wpc' = [wpc EXCEPT ![w] = "except"]
            /\ current' = [current EXCEPT ![w] = NoEntry]
            /\ UNCHANGED sendLog
       ELSE LET event == JsonLoads(current[w].text)
                to == Get(event, "assigned_to_email") IN
            /\ wpc' = [wpc EXCEPT ![w] = "mid"]
            /\ UNCHANGED current
            /\ IF Truthy(to)
               THEN \E o \in outcomes :
                      LET r == send_task_notification_email(smtpConfigured, o) IN
                      /\ sendLog' = Append(sendLog,
                                           SendRecord(w, current[w], to, "assigned_to", r))
                      /\ pending' = [pending EXCEPT
                                        ![w] = IF r.raised THEN "raised" ELSE ""]
               ELSE UNCHANGED <<sendLog, pending>>
    /\ UNCHANGED <<brokerVars, queueVars, tsVars, smtpConfigured, celeryVars, es_redis_client,
                   redis_client, running, stopRequested, handlerTrace,
                   failedReconnects, startResult, lastPop, popLog, dispatchLog>>

\* process_event lines 140-162: the reporting product owner, then return.
ProcessReporting(w, outcomes) ==
    /\ wpc[w] = "mid"
    /\ LET event == JsonLoads(current[w].text)
           to == Get(event, "reporting_to_email")
           attempt == pending[w] # "raised" /\ Truthy(to) IN
       \E o \in outcomes :
          LET r == send_task_notification_email(smtpConfigured, o)
              bodyRaised == pending[w] = "raised" \/ (attempt /\ r.raised)
              out == process_event_raises(bodyRaised) IN
          /\ sendLog' = IF attempt
                        THEN Append(sendLog,
                                    SendRecord(w, current[w], to, "reporting_to", r))
                        ELSE sendLog
          /\ dispatchLog' = Append(dispatchLog,
                                   [w |-> w, seq |-> current[w].seq, raised |-> out,
                                    assigned |-> Get(event, "assigned_to_email"),
                                    reporting |-> Get(event, "reporting_to_email"),
                                    task_id |-> Get(event, "task_id"),
                                    event_type |-> Get(event, "event_type"),
                                    op |-> current[w].op,
                                    summary |-> process_event_return,
                                    event |-> event])
          /\ pending' = [pending EXCEPT ![w] = IF out THEN "Exception" ELSE ""]
          /\ wpc' = [wpc EXCEPT ![w] = IF out THEN "except" ELSE "loop"]
    /\ current' = [current EXCEPT ![w] = NoEntry]
    /\ UNCHANGED <<brokerVars, queueVars, tsVars, smtpConfigured, celeryVars, es_redis_client,
                   redis_client, running, stopRequested, handlerTrace,
                   failedReconnects, startResult, lastPop, popLog>>

\* shutdown_event (main.py 92-98): `if email_worker: email_worker.running = False`.
RequestStop(w) ==
    /\ wpc[w] # "idle"
    /\ ~stopRequested[w]
    /\ running' = [running EXCEPT ![w] = FALSE]
    /\ stopRequested' = [stopRequested EXCEPT ![w] = TRUE]
    /\ UNCHANGED <<brokerVars, queueVars, tsVars, smtpConfigured, celeryVars, es_redis_client,
                   redis_client, wpc, current, pending, handlerTrace,
                   failedReconnects, startResult, lastPop, logVars>>

WorkerStep(w, outcomes) ==
    \/ WorkerStart(w)
    \/ WorkerInit(w)
    \/ LoopCheck(w)
    \/ Blpop(w)
    \/ HandleException(w)
    \/ ProcessAssigned(w, outcomes)
    \/ ProcessReporting(w, outcomes)

\* ---------------------------------------------------------- tasks-service
TaskIds == {"1", "2"}
Slots == {1, 2}

Fields == {"title", "description", "status", "project_id", "dueDate",
           "assigned_to", "reporting_to"}
MaxUpdateFields == 2

Statuses == {"open", "in_review"}

\* The value a request may carry for each field (TaskUpdate, schemas.py
\* 34-46); dueDate is shown after the date -> datetime conversion of
\* task_service.py 248-258.
NewValues(f) ==
    IF f = "status" THEN Statuses
    ELSE IF f = "title" THEN {"Fix login bug v2"}
    ELSE IF f = "description" THEN {"new text"}
    ELSE IF f = "project_id" THEN {"11"}
    ELSE IF f = "dueDate" THEN DateTimes
    ELSE IF f = "assigned_to" THEN {"8"}
    ELSE {"4"}

\* update_data.model_dump(exclude_unset=True, exclude_none=True) without
\* status_change_reason (lines 218-220).
UpdateDicts ==
    UNION { [fs -> UNION {NewValues(f) : f \in fs}] :
              fs \in {x \in SUBSET Fields : Cardinality(x) <= MaxUpdateFields} }
ValidUpdateDicts == {u \in UpdateDicts : \A f \in DOMAIN u : u[f] \in NewValues(f)}

Reasons == {None, "ready for QA"}
Roles == {"Product Owner", "Developer"}
ActorId(role) == IF role = "Developer" THEN "7" ELSE "3"

\* organization-service directory.
DevEmail(id) == IF id = "7" THEN "dev7@x.com" ELSE IF id = "8" THEN "dev8@x.com" ELSE None
PoEmail(id) == IF id = "3" THEN "po3@x.com" ELSE IF id = "4" THEN "po4@x.com" ELSE None

Task1 ==
    [exists |-> TRUE, title |-> "Fix login bug", description |-> "text",
     status |-> "open", project_id |-> "10", dueDate |-> None,
     assigned_to |-> "7", reporting_to |-> "3"]
NoTask == [exists |-> FALSE, title |-> None, description |-> None,
           status |-> None, project_id |-> None, dueDate |-> None,
           assigned_to |-> None, reporting_to |-> None]

\* Lines 207-215: the reason, with its role-dependent default.
DefaultReason(reason, role) ==
    IF Truthy(reason) THEN reason
    ELSE IF role = "Product Owner" THEN "Product Owner modified task"
    ELSE IF role = "Developer" THEN "Developer modified task"
    ELSE "Owner modified task"

\* Lines 226-244: a Developer may update the status field only.
DeveloperRejected(role, upd) ==
    role = "Developer" /\ (~(DOMAIN upd \subseteq {"status"}) \/ "status" \notin DOMAIN upd)

\* TaskRepository.update (task_repository.py 46-60): the row after the
\* commit; the ORM writes the attributes whose value differs from the one
\* this session loaded.
RepositoryUpdate(row, loaded, upd) ==
    [f \in DOMAIN row |->
        IF f \in DOMAIN upd /\ upd[f] # loaded[f] THEN upd[f] ELSE row[f]]

\* Lines 412-423: formatted_changes.
FormatChanges_bare(upd, old_status, new_status) ==
    [k \in DOMAIN upd |-> [kind |-> "bare", old |-> None, new |-> upd[k]]]
FormatChanges(upd, old_status, new_status) ==
    [k \in DOMAIN upd |->
        IF k = "status" /\ old_status # new_status
        THEN [kind |-> "pair", old |-> old_status, new |-> upd[k]]
        ELSE [kind |-> "bare", old |-> None, new |-> upd[k]]]

\* audit_service.log_audit line 45: json.dumps(details) of the update.
AuditDumpsOk(upd) == \A k \in DOMAIN upd : JsonEncodable(upd[k])

DbWrites == {"none", "task", "task_log", "audit_log"}

FreeReq == [pc |-> "free"]

\* Ghost: what a request that appended an entry was called with and what it
\* read: role, update dict, reason supplied, old_status / new_status as the
\* code computed them, the status the row had when the update was committed,
\* the lookups that failed, the row the envelope was built from, and the
\* position of its commit among the commits of the service (the number of
\* the audit row written with it).
NoInfo == [role |-> None]
Info(q) ==
    [role |-> q.role, upd |-> q.upd, supplied |-> q.supplied,
     old_status |-> q.old_status, new_status |-> q.new_status,
     pre_status |-> q.pre_status, failing |-> q.failing, snap |-> q.snap,
     loaded |-> q.loaded, commit_no |-> q.commit_no]

\* A finished request: what the properties read of it (built: the event
\* dict enqueue_task_event built for the entry it appended).
Done(q, outcome, committed, res, dbFailed) ==
    [pc |-> "done", kind |-> q.kind, op |-> q.op, task_id |-> q.task_id,
     outcome |-> outcome, committed |-> committed, enq |-> res.how,
     appends |-> Len(res.pushed), dbFailed |-> dbFailed, failing |-> q.failing,
     info |-> IF res.how = "appended" THEN Info(q) ELSE NoInfo,
     built |-> IF res.how = "appended" THEN res.event ELSE NoChanges]

NotEnqueued ==
    [client |-> None, pushed |-> <<>>, how |-> "not_reached", raised |-> FALSE,
     event |-> NoChanges]

\* task_service.py lines 177-180 / 442-445 / 503-506: what the operation
\* does after the enqueue call: an exception of the call is caught and
\* printed, and the operation carries on.
after_enqueue_strict(res) == IF res.how = "appended" THEN "continue" ELSE "raise"
after_enqueue(res) == "continue"

Lookups == {"actor", "org", "assigned", "reporting"}
\* The lookups that fail during one request: none, one recipient's, or all
\* of them (organization service down).
FailingLookups == {{}, {"assigned"}, {"reporting"}, Lookups}

\* A new request is served in the first slot that holds no request in flight.
Idle(r) == req[r].pc \in {"free", "done"}
SlotFree(r) == Idle(r) /\ opCount < MaxOps /\ \A r2 \in Slots : r2 < r => ~Idle(r2)

\* Lines 106-176 / 356-441: resolve the e-mail addresses through the
\* organization service (each lookup in its own try block) and build the
\* arguments of enqueue_task_event.  failing: the lookups that raise.
ResolveArgs_one_try(kind, q, failing) ==
    LET uid == ActorId(q.role)
        dev == DevEmail(uid)
        ue == IF "actor" \in failing THEN None
              ELSE IF dev # None THEN dev ELSE PoEmail(uid)
        org == IF "org" \in failing THEN None ELSE "Acme"
        ae == IF Truthy(q.snap.assigned_to) /\ "assigned" \notin failing
              THEN DevEmail(q.snap.assigned_to) ELSE None
        re == IF /\ Truthy(q.snap.reporting_to)
                 /\ "reporting" \notin failing /\ "assigned" \notin failing
              THEN PoEmail(q.snap.reporting_to) ELSE None
    IN EnvelopeArgs(kind, q.task_id, q.snap.title, q.snap.assigned_to,
                    q.snap.reporting_to, ae, re, uid, ue, q.role, org,
                    IF kind = "task_updated"
                    THEN FormatChanges(q.upd, q.old_status, q.new_status)
                    ELSE NoChanges,
                    IF kind = "task_updated" THEN q.reason ELSE None)
ResolveArgs(kind, q, failing) ==
    LET uid == ActorId(q.role)
        dev == DevEmail(uid)
        ue == IF "actor" \in failing THEN None
              ELSE IF dev # None THEN dev ELSE PoEmail(uid)
        org == IF "org" \in failing THEN None ELSE "Acme"
        ae == IF Truthy(q.snap.assigned_to) /\ "assigned" \notin failing
              THEN DevEmail(q.snap.assigned_to) ELSE None
        re == IF Truthy(q.snap.reporting_to) /\ "reporting" \notin failing
              THEN PoEmail(q.snap.reporting_to) ELSE None
    IN EnvelopeArgs(kind, q.task_id, q.snap.title, q.snap.assigned_to,
                    q.snap.reporting_to, ae, re, uid, ue, q.role, org,
                    IF kind = "task_updated"
                    THEN FormatChanges(q.upd, q.old_status, q.new_status)
                    ELSE NoChanges,
                    IF kind = "task_updated" THEN q.reason ELSE None)

\* The enqueue call of an operation and the return that follows it.
EnqueueAndReturn(r, q, a) ==
    LET res == enqueue_task_event(ts_redis_client, brokerUp, a) IN
    /\ ts_redis_client' = res.client
    /\ queue' = PushAll(queue, nextSeq, "producer", q.op, res.pushed)
    /\ nextSeq' = nextSeq + Len(res.pushed)
    /\ req' = [req EXCEPT ![r] =
                  Done(q, IF after_enqueue(res) = "continue" THEN "ok" ELSE "raised",
                       TRUE, res, FALSE)]

\* update_task lines 322-354: commit the update, write the task log when the
\* status changed, write the audit entry.  fail: the database write that
\* fails, if any.
UpdateCommitSection(r, q, fail) ==
    LET row == tasks[q.task_id]
        statusChanged == q.old_status # q.new_status
        newRow == RepositoryUpdate(row, q.loaded, q.upd)
    IN
    IF ~row.exists \/ fail = "task"
    THEN /\ req' = [req EXCEPT ![r] = Done(q, "raised", FALSE, NotEnqueued, fail = "task")]
         /\ UNCHANGED <<tasks, task_log, audit_log>>
    ELSE /\ tasks' = [tasks EXCEPT ![q.task_id] = newRow]
         /\ IF statusChanged /\ fail = "task_log"
            THEN /\ req' = [req EXCEPT ![r] = Done(q, "raised", TRUE, NotEnqueued, TRUE)]
                 /\ UNCHANGED <<task_log, audit_log>>
            ELSE /\ task_log' = IF statusChanged THEN task_log + 1 ELSE task_log
                 /\ IF ~AuditDumpsOk(q.upd)
                    THEN /\ req' = [req EXCEPT ![r] =
                                       Done(q, "raised", TRUE, NotEnqueued, FALSE)]
                         /\ UNCHANGED audit_log
                    ELSE IF fail = "audit_log"
                    THEN /\ req' = [req EXCEPT ![r] =
                                       Done(q, "raised", TRUE, NotEnqueued, TRUE)]
                         /\ UNCHANGED audit_log
                    ELSE /\ audit_log' = audit_log + 1
                         /\ req' = [req EXCEPT ![r] =
                                       [q EXCEPT !.pc = "lookup", !.snap = newRow,
                                                 !.pre_status = row.status,
                                                 !.commit_no = audit_log + 1]]

\* TaskService.update_task lines 196-245 (and on to 354 when the update
\* names neither assigned_to nor reporting_to: no await in between).
UpdateBeginWith(r, upds, fails) ==
    /\ SlotFree(r)
    /\ opCount' = opCount + 1
    /\ \E tid \in TaskIds, role \in Roles, upd \in upds,
          reason \in Reasons, fail \in fails :
          LET row == tasks[tid]
              new == IF "status" \in DOMAIN upd THEN upd["status"] ELSE row.status
              q == [pc |-> "validate", kind |-> "update", op |-> opCount + 1,
                    task_id |-> tid, role |-> role, upd |-> upd,
                    reason |-> DefaultReason(reason, role),
                    old_status |-> row.status, new_status |-> new,
                    loaded |-> row, snap |-> row, supplied |-> reason,
                    pre_status |-> None, failing |-> {}, commit_no |-> 0]
          IN
          IF ~row.exists \/ DeveloperRejected(role, upd)
          THEN /\ req' = [req EXCEPT ![r] = Done(q, "raised", FALSE, NotEnqueued, FALSE)]
               /\ UNCHANGED <<tasks, task_log, audit_log>>
          ELSE IF DOMAIN upd \cap {"assigned_to", "reporting_to"} # {}
          THEN /\ req' = [req EXCEPT ![r] = q]
               /\ UNCHANGED <<tasks, task_log, audit_log>>
          ELSE UpdateCommitSection(r, q, fail)
    /\ UNCHANGED <<brokerVars, queueVars, ts_redis_client, lastId, smtpConfigured, celeryVars,
                   workerVars, logVars>>

UpdateBegin(r) == UpdateBeginWith(r, ValidUpdateDicts, DbWrites)

\* update_task lines 274-354: the organization service answered the
\* validation of assigned_to / reporting_to.
UpdateValidate(r) ==
    /\ req[r].pc = "validate" /\ req[r].kind = "update"
    /\ \E answer \in {"found", "not_found", "error"}, fail \in DbWrites :
          IF answer # "found"
          THEN /\ req' = [req EXCEPT ![r] =
                             Done(req[r], "raised", FALSE, NotEnqueued, FALSE)]
               /\ UNCHANGED <<tasks, task_log, audit_log>>
          ELSE UpdateCommitSection(r, req[r], fail)
    /\ UNCHANGED <<brokerVars, queueVars, ts_redis_client, lastId, opCount,
                   smtpConfigured, celeryVars, workerVars, logVars>>

\* update_task lines 356-445: the lookups answered; enqueue and return.
UpdateEnqueue(r) ==
    /\ req[r].pc = "lookup" /\ req[r].kind = "update"
    /\ \E failing \in FailingLookups :
          EnqueueAndReturn(r, [req[r] EXCEPT !.failing = failing],
                           ResolveArgs("task_updated", req[r], failing))
    /\ UNCHANGED <<brokerVars, tasks, lastId, task_log, audit_log, opCount,
                   smtpConfigured, celeryVars, workerVars, logVars>>

NewTask ==
    [exists |-> TRUE, title |-> "New task", description |-> "text",
     status |-> "open", project_id |-> "10", dueDate |-> None,
     assigned_to |-> "7", reporting_to |-> "3"]

\* TaskService.create_task lines 27-45: the project belongs to the
\* organization, or the request is rejected.
CreateBegin(r) ==
    /\ SlotFree(r)
    /\ lastId = "1"
    /\ opCount' = opCount + 1
    /\ \E projectOk \in BOOLEAN :
          LET q == [pc |-> "verify", kind |-> "create", op |-> opCount + 1,
                    task_id |-> None, role |-> "Product Owner",
                    upd |-> NoChanges, reason |-> None, old_status |-> None,
                    new_status |-> None, loaded |-> NoTask, snap |-> NoTask,
                    supplied |-> None, pre_status |-> None, failing |-> {},
                    commit_no |-> 0]
          IN req' = [req EXCEPT
                ![r] = IF projectOk THEN q
                       ELSE Done(q, "raised", FALSE, NotEnqueued, FALSE)]
    /\ UNCHANGED <<brokerVars, queueVars, ts_redis_client, tasks, lastId, task_log,
                   audit_log, smtpConfigured, celeryVars, workerVars, logVars>>

\* create_task lines 42-104: developer and product owner verified, the task
\* row committed, the audit entry written.
CreateCommit(r) ==
    /\ req[r].pc = "verify" /\ req[r].kind = "create"
    /\ \E answer \in {"found", "not_found", "error"},
          fail \in {"none", "task", "audit_log"} :
          LET q == req[r] IN
          IF answer # "found" \/ fail = "task" \/ lastId # "1"
          THEN /\ req' = [req EXCEPT ![r] =
                             Done(q, "raised", FALSE, NotEnqueued,
                                  answer = "found" /\ fail = "task")]
               /\ UNCHANGED <<tasks, lastId, audit_log>>
          ELSE /\ tasks' = [tasks EXCEPT !["2"] = NewTask]
               /\ lastId' = "2"
               /\ IF fail = "audit_log"
                  THEN /\ req' = [req EXCEPT ![r] =
                                     Done([q EXCEPT !.task_id = "2"], "raised", TRUE,
                                          NotEnqueued, TRUE)]
                       /\ UNCHANGED audit_log
                  ELSE /\ audit_log' = audit_log + 1
                       /\ req' = [req EXCEPT ![r] =
                                     [q EXCEPT !.pc = "lookup", !.task_id = "2",
                                               !.snap = NewTask,
                                               !.commit_no = audit_log + 1]]
    /\ UNCHANGED <<brokerVars, queueVars, ts_redis_client, task_log, opCount,
                   smtpConfigured, celeryVars, workerVars, logVars>>

\* create_task lines 106-180: the lookups answered; enqueue and return.
CreateEnqueue(r) ==
    /\ req[r].pc = "lookup" /\ req[r].kind = "create"
    /\ \E failing \in FailingLookups :
          EnqueueAndReturn(r, [req[r] EXCEPT !.failing = failing],
                           ResolveArgs("task_created", req[r], failing))
    /\ UNCHANGED <<brokerVars, tasks, lastId, task_log, audit_log, opCount,
                   smtpConfigured, celeryVars, workerVars, logVars>>

\* TaskService.delete_task lines 447-506 (no await: one step).
DeleteTask(r) ==
    /\ SlotFree(r)
    /\ opCount' = opCount + 1
    /\ \E tid \in TaskIds, fail \in {"none", "audit_log", "task"} :
          LET row == tasks[tid]
              q == [kind |-> "delete", op |-> opCount + 1, task_id |-> tid,
                    role |-> "Product Owner", upd |-> NoChanges,
                    supplied |-> None, old_status |-> None, new_status |-> None,
                    pre_status |-> None, failing |-> {}, snap |-> row,
                    loaded |-> row, commit_no |-> audit_log + 1]
              a == EnvelopeArgs("task_deleted", tid, row.title, row.assigned_to,
                                row.reporting_to, None, None, "3", None,
                                "Product Owner", None, NoChanges, None)
              res == enqueue_task_event(ts_redis_client, brokerUp, a)
          IN
          IF ~row.exists \/ fail = "audit_log"
          THEN /\ req' = [req EXCEPT ![r] =
                             Done(q, "raised", FALSE, NotEnqueued, row.exists)]
               /\ UNCHANGED <<tasks, audit_log, ts_redis_client, queueVars>>
          ELSE /\ audit_log' = audit_log + 1
               /\ ts_redis_client' = res.client
               /\ queue' = PushAll(queue, nextSeq, "producer", q.op, res.pushed)
               /\ nextSeq' = nextSeq + Len(res.pushed)
               /\ IF after_enqueue(res) # "continue"
                  THEN /\ req' = [req EXCEPT ![r] = Done(q, "raised", FALSE, res, FALSE)]
                       /\ UNCHANGED tasks
                  ELSE IF fail = "task"
                  THEN /\ req' = [req EXCEPT ![r] = Done(q, "raised", FALSE, res, TRUE)]
                       /\ UNCHANGED tasks
                  ELSE /\ req' = [req EXCEPT ![r] = Done(q, "ok", TRUE, res, FALSE)]
                       /\ tasks' = [tasks EXCEPT ![tid] = NoTask]
    /\ UNCHANGED <<brokerVars, lastId, task_log, smtpConfigured, celeryVars, workerVars, logVars>>

TaskRequest(r) ==
    \/ UpdateBegin(r)
    \/ UpdateValidate(r)
    \/ UpdateEnqueue(r)
    \/ CreateBegin(r)
    \/ CreateCommit(r)
    \/ CreateEnqueue(r)
    \/ DeleteTask(r)

\* ------------------------------------------- monolith: Celery email path
\* src/src: EmailService.queue_email stores a row of email_queue and hands a
\* send_email_async task to Celery; Celery workers execute send_email_async,
\* send_email_task and the periodic process_email_queue.
CeleryWorkers == {"c1", "c2"}
IdleExec == [pc |-> "idle", email_id |-> 0, retries |-> 0]

\* A mail (to_email, subject, body) is identified by the number of the
\* queue_email call that was given it.
Row(mail) == [mail |-> mail, status |-> "pending", retry_count |-> 0]
Message(task, arg, retries) == [task |-> task, arg |-> arg, retries |-> retries]

\* EmailRepository.create: the table with the new row; its id is its index.
repository_create(rows, mail) == Append(rows, Row(mail))

\* EmailRepository.get_pending(limit): ids of the pending rows, in id order.
RECURSIVE PendingFrom(_, _, _)
PendingFrom(rows, i, limit) ==
    IF i > Len(rows) \/ limit = 0 THEN <<>>
    ELSE IF rows[i].status = "pending"
    THEN <<i>> \o PendingFrom(rows, i + 1, limit - 1)
    ELSE PendingFrom(rows, i + 1, limit)
get_pending(rows, limit) == PendingFrom(rows, 1, limit)

\* The monolith's settings: SMTP_HOST and SMTP_USER set, SMTP_PASSWORD set.
MonolithSmtp == [host_user |-> TRUE, password |-> TRUE]
CeleryOutcomes == {"sent", "SMTPException"}

\* EmailService.send_email (email_service.py 185-283): the status written
\* to the row, the increment of retry_count, the value returned and whether
\* an SMTP connection was made.
send_email(cfg, outcome) ==
    IF ~cfg.host_user
    THEN [status |-> "sent", inc |-> 0, result |-> TRUE, smtp |-> FALSE]
    ELSE IF ~cfg.password
    THEN [status |-> "failed", inc |-> 1, result |-> FALSE, smtp |-> FALSE]
    ELSE IF outcome = "sent"
    THEN [status |-> "sent", inc |-> 0, result |-> TRUE, smtp |-> TRUE]
    ELSE [status |-> "failed", inc |-> 1, result |-> FALSE, smtp |-> TRUE]

otherVars == <<brokerVars, queueVars, tsVars, smtpConfigured, workerVars, logVars>>

\* EmailService.queue_email(to, subject, body, use_celery=True), lines 22-54:
\* create the row, then send_email_async.delay(to, subject, body); when
\* Celery cannot be reached the exception is printed and the row stays.
QueueEmail ==
    /\ mailCount < MaxMails
    /\ mailCount' = mailCount + 1
    /\ email_queue' = repository_create(email_queue, mailCount + 1)
    /\ \E delivered \in BOOLEAN :
          celery_messages' =
              IF delivered
              THEN Append(celery_messages, Message("send_email_async", mailCount + 1, 0))
              ELSE celery_messages
    /\ UNCHANGED <<otherVars, celery_exec, beatCount, smtp_log, celery_results>>

\* celery_app.conf.beat_schedule (celery_app.py 37-43): every 60 seconds
\* beat sends a process_email_queue task.
BeatTick ==
    /\ beatCount < MaxBeats
    /\ beatCount' = beatCount + 1
    /\ celery_messages' = Append(celery_messages, Message("process_email_queue", 0, 0))
    /\ UNCHANGED <<otherVars, email_queue, celery_exec, mailCount, smtp_log,
                   celery_results>>

Takes(c, task) ==
    /\ celery_exec[c].pc = "idle"
    /\ celery_messages # <<>>
    /\ Head(celery_messages).task = task

\* send_email_async (email_tasks.py 101-130): queue_email(..., use_celery=
\* False) stores a row, then send_email_task.delay(row id).
RunSendEmailAsync(c) ==
    /\ Takes(c, "send_email_async")
    /\ email_queue' = repository_create(email_queue, Head(celery_messages).arg)
    /\ celery_messages' = Append(Tail(celery_messages),
                                 Message("send_email_task", Len(email_queue) + 1, 0))
    /\ UNCHANGED <<otherVars, celery_exec, mailCount, beatCount, smtp_log,
                   celery_results>>

RECURSIVE DelayAll(_, _)
DelayAll(msgs, ids) ==
    IF ids = <<>> THEN msgs
    ELSE DelayAll(Append(msgs, Message("send_email_task", Head(ids), 0)), Tail(ids))

\* process_email_queue (email_tasks.py 67-98): send_email_task.delay(id) for
\* every pending row.
RunProcessEmailQueue(c) ==
    /\ Takes(c, "process_email_queue")
    /\ celery_messages' = DelayAll(Tail(celery_messages),
                                   get_pending(email_queue, get_pending_limit))
    /\ UNCHANGED <<otherVars, email_queue, celery_exec, mailCount, beatCount,
                   smtp_log, celery_results>>

TaskResult(id, retries, result) ==
    [email_id |-> id, retries |-> retries, result |-> result]

\* send_email_task lines 39-51: load the row; return when it is missing or
\* its status is not "pending".
SendEmailTaskBegin(c) ==
    /\ Takes(c, "send_email_task")
    /\ celery_messages' = Tail(celery_messages)
    /\ LET m == Head(celery_messages) IN
       IF m.arg \notin DOMAIN email_queue
       THEN /\ celery_results' = Append(celery_results, TaskResult(m.arg, m.retries, "error"))
            /\ UNCHANGED celery_exec
       ELSE IF email_queue[m.arg].status # "pending"
       THEN /\ celery_results' = Append(celery_results,
                                        TaskResult(m.arg, m.retries, "skipped"))
            /\ UNCHANGED celery_exec
       ELSE /\ celery_exec' = [celery_exec EXCEPT
                                  ![c] = [pc |-> "sending", email_id |-> m.arg,
                                          retries |-> m.retries]]
            /\ UNCHANGED celery_results
    /\ UNCHANGED <<otherVars, email_queue, mailCount, beatCount, smtp_log>>

\* send_email_task lines 53-64: send_email(row); on False raise, and the
\* except clause calls self.retry, which publishes the task again until
\* max_retries is reached.
SendEmailTaskSend(c) ==
    /\ celery_exec[c].pc = "sending"
    /\ \E o \in CeleryOutcomes :
          LET id == celery_exec[c].email_id
              n == celery_exec[c].retries
              r == send_email(MonolithSmtp, o)
          IN
          /\ email_queue' = [email_queue EXCEPT
                                ![id].status = r.status,
                                ![id].retry_count = @ + r.inc]
          /\ smtp_log' = IF r.smtp
                         THEN Append(smtp_log,
                                     [email_id |-> id, mail |-> email_queue[id].mail,
                                      retries |-> n, delivered |-> r.result])
                         ELSE smtp_log
          /\ IF r.result
             THEN /\ celery_results' = Append(celery_results, TaskResult(id, n, "success"))
                  /\ UNCHANGED celery_messages
             ELSE IF n < max_retries
             THEN /\ celery_results' = Append(celery_results, TaskResult(id, n, "retry"))
                  /\ celery_messages' = Append(celery_messages,
                                               Message("send_email_task", id, n + 1))
             ELSE /\ celery_results' = Append(celery_results, TaskResult(id, n, "failed"))
                  /\ UNCHANGED celery_messages
    /\ celery_exec' = [celery_exec EXCEPT ![c] = IdleExec]
    /\ UNCHANGED <<otherVars, mailCount, beatCount>>

CeleryWorker(c) ==
    \/ RunSendEmailAsync(c)
    \/ RunProcessEmailQueue(c)
    \/ SendEmailTaskBegin(c)
    \/ SendEmailTaskSend(c)

NextCelery ==
    \/ QueueEmail
    \/ BeatTick
    \/ \E c \in CeleryWorkers : CeleryWorker(c)

\* -------------------------------------------------------------------- Init
\* tasks-service main.py 25-29 initialises Redis once at start-up; the
\* email workers have not been started.
Init ==
    /\ brokerUp \in BOOLEAN
    /\ outages = 0
    /\ everDown = ~brokerUp
    /\ queue = <<>>
    /\ nextSeq = 0
    /\ ts_redis_client = initialize_redis(brokerUp)
    /\ tasks = [t \in TaskIds |-> IF t = "1" THEN Task1 ELSE NoTask]
    /\ req = [r \in Slots |-> FreeReq]
    /\ opCount = 0
    /\ lastId = "1"
    /\ task_log = 0
    /\ audit_log = 0
    /\ smtpConfigured \in BOOLEAN
    /\ es_redis_client = [w \in Workers |-> None]
    /\ redis_client = [w \in Workers |-> None]
    /\ running = [w \in Workers |-> FALSE]
    /\ wpc = [w \in Workers |-> "idle"]
    /\ current = [w \in Workers |-> NoEntry]
    /\ pending = [w \in Workers |-> ""]
    /\ stopRequested = [w \in Workers |-> FALSE]
    /\ handlerTrace = [w \in Workers |-> <<>>]
    /\ failedReconnects = [w \in Workers |-> 0]
    /\ startResult = [w \in Workers |-> "none"]
    /\ lastPop = [w \in Workers |-> "none"]
    /\ popLog = <<>>
    /\ dispatchLog = <<>>
    /\ sendLog = <<>>
    /\ email_queue = <<>>
    /\ celery_messages = <<>>
    /\ celery_exec = [c \in CeleryWorkers |-> IdleExec]
    /\ mailCount = 0
    /\ beatCount = 0
    /\ smtp_log = <<>>
    /\ celery_results = <<>>

\* ------------------------------------------------------- specifications
\* The email service configured with SMTP_HOST, SMTP_USER and SMTP_PASSWORD.
InitConfigured == Init /\ smtpConfigured = TRUE

SequentialSlots == {1}

\* Several worker processes on one queue.
NextWorkers ==
    \/ BrokerDown
    \/ BrokerRestore
    \/ EnqueueTaskEvent(BothRecipients, MaxSharedEntries)
    \/ RawPush({Garbage}, MaxSharedEntries)
    \/ \E w \in Workers : WorkerStep(w, SmtpSentOnly)

SpecWorkers == InitConfigured /\ [][NextWorkers]_vars

\* One worker process, with its start and stop.
WorkerThread(w) == WorkerStep(w, SmtpSentOnly)

NextSingle ==
    \/ BrokerDown
    \/ BrokerRestore
    \/ EnqueueTaskEvent(BothRecipients, MaxEntries)
    \/ RawPush({Garbage}, MaxEntries)
    \/ \E w \in SingleWorker :
          \/ WorkerThread(w)
          \/ RequestStop(w)
          \/ KeyboardInterrupt(w)

SpecSingle == InitConfigured /\ [][NextSingle]_vars

\* The worker thread is scheduled again and again: every sleep and every
\* blpop call returns (the blocking timeout is QUEUE_BLOCKING_TIMEOUT).
SpecSingleFair ==
    InitConfigured /\ [][NextSingle]_vars /\ \A w \in SingleWorker : WF_vars(WorkerThread(w))

\* One worker dispatching envelopes of every recipient shape over SMTP.
NextDispatch ==
    \/ BrokerDown
    \/ BrokerRestore
    \/ EnqueueTaskEvent(DirectArgs, MaxSharedEntries)
    \/ RawPush(ForeignTexts, MaxSharedEntries)
    \/ \E w \in SingleWorker : WorkerStep(w, SmtpOutcomes)

SpecDispatch == InitConfigured /\ [][NextDispatch]_vars

\* The same worker in an email service started without SMTP_HOST, SMTP_USER
\* or SMTP_PASSWORD.
InitUnconfigured == Init /\ smtpConfigured = FALSE

SpecDegraded == InitUnconfigured /\ [][NextDispatch]_vars

\* The tasks service and its queue, requests served one after the other, no
\* worker consuming.
NextTasks ==
    \/ BrokerDown
    \/ BrokerRestore
    \/ \E r \in SequentialSlots : TaskRequest(r)

SpecTasks == InitConfigured /\ [][NextTasks]_vars

\* Tasks service, queue and one worker together: creates and a few updates,
\* served one after the other, their envelopes dispatched by the worker.
PipelineUpdates == {[status |-> "in_review"], [assigned_to |-> "8"]}

PipelineRequest(r) ==
    \/ UpdateBeginWith(r, PipelineUpdates, {"none"})
    \/ UpdateValidate(r)
    \/ UpdateEnqueue(r)
    \/ CreateBegin(r)
    \/ CreateCommit(r)
    \/ CreateEnqueue(r)

NextPipeline ==
    \/ BrokerDown
    \/ BrokerRestore
    \/ \E r \in SequentialSlots : PipelineRequest(r)
    \/ \E w \in SingleWorker : WorkerStep(w, SmtpSentOnly)

SpecPipeline == InitConfigured /\ [][NextPipeline]_vars

\* Updates of the same tasks in flight at the same time in one tasks-service
\* process: a request that awaits the organization service (validation of
\* assigned_to, lines 274-295) lets another request run in between.
ConcurrentUpdates ==
    {[status |-> "in_review"],
     [status |-> "in_review", assigned_to |-> "8"],
     [status |-> "open", assigned_to |-> "8"]}

NextConcurrent ==
    \/ BrokerDown
    \/ BrokerRestore
    \/ \E r \in Slots :
          \/ UpdateBeginWith(r, ConcurrentUpdates, {"none"})
          \/ UpdateValidate(r)
          \/ UpdateEnqueue(r)

SpecConcurrent == InitConfigured /\ [][NextConcurrent]_vars

\* Updates and deletes of the same tasks in flight at the same time: an
\* update that has committed awaits the organization service for the
\* e-mail addresses (lines 356-410) before it enqueues, and another request
\* runs in between.
OverlapUpdates == {[status |-> "in_review"], [assigned_to |-> "8"]}

NextOverlap ==
    \/ BrokerDown
    \/ BrokerRestore
    \/ \E r \in Slots :
          \/ UpdateBeginWith(r, OverlapUpdates, {"none"})
          \/ UpdateValidate(r)
          \/ UpdateEnqueue(r)
          \/ DeleteTask(r)

SpecOverlap == InitConfigured /\ [][NextOverlap]_vars

\* The monolith's Celery email path: calls of queue_email, the beat
\* schedule, and two Celery worker processes.
SpecCelery == InitConfigured /\ [][NextCelery]_vars

\* The whole pipeline.
Next ==
    \/ BrokerDown
    \/ BrokerRestore
    \/ EnqueueTaskEvent(DirectArgs, MaxEntries)
    \/ RawPush(ForeignTexts, MaxEntries)
    \/ \E r \in Slots : TaskRequest(r)
    \/ \E w \in Workers :
          \/ WorkerStep(w, SmtpOutcomes)
          \/ RequestStop(w)
          \/ KeyboardInterrupt(w)

Spec == Init /\ [][Next]_vars

\* ------------------------------------------------------------------ claims
Range(f) == {f[i] : i \in DOMAIN f}
EntriesOf(op) == {i \in DOMAIN queue : queue[i].op = op}
Finished(r) == req[r].pc = "done"
QueueFailed(q) == q.enq \in {"no_client", "rpush_error"}

\* C1: when a create, update or delete reaches its enqueue call and the queue
\* is unreachable (no client) or rpush raises, and no database write of the
\* request failed, the operation returns normally, its mutation is committed
\* and the queue holds no entry of it.
C1_EnqueueFailureIsolated ==
    \A r \in Slots :
        (Finished(r) /\ QueueFailed(req[r]) /\ ~req[r].dbFailed)
            => /\ req[r].outcome = "ok"
               /\ req[r].committed
               /\ req[r].appends = 0
               /\ EntriesOf(req[r].op) = {}

\* C1 witness: a delete, whose enqueue precedes its commit, met an rpush
\* failure and still deleted the task.
C1_Witness ==
    \E r \in Slots :
        /\ Finished(r) /\ req[r].kind = "delete" /\ req[r].enq = "rpush_error"
        /\ req[r].outcome = "ok" /\ ~tasks[req[r].task_id].exists

\* C2: with the queue reachable throughout and no database write failing,
\* every committed create, update or delete has appended exactly one entry.
C2_ExactlyOneEntry ==
    \A r \in Slots :
        (Finished(r) /\ req[r].committed /\ ~everDown /\ ~req[r].dbFailed)
            => req[r].appends = 1 /\ Cardinality(EntriesOf(req[r].op)) = 1

NoDuplicateSeq(log) ==
    \A i, j \in DOMAIN log : i # j => log[i].seq # log[j].seq
PoppedBy(w) == {i \in DOMAIN popLog : popLog[i].w = w}
DispatchedBy(w) == {i \in DOMAIN dispatchLog : dispatchLog[i].w = w}
Dispatched(n) == \E i \in DOMAIN dispatchLog : dispatchLog[i].seq = n
Waiting(n) == \E i \in DOMAIN queue : queue[i].seq = n /\ queue[i].src = "producer"
InLoop(w) == wpc[w] \in {"loop", "pop", "popped", "mid", "except"}

\* C3: with several workers on one queue every entry is popped at most once
\* and dispatched at most once, no two workers hold the same entry, and a
\* popped entry is not in the queue any more.
C3_AtMostOnce ==
    /\ NoDuplicateSeq(popLog)
    /\ NoDuplicateSeq(dispatchLog)
    /\ \A i \in DOMAIN popLog, k \in DOMAIN queue : queue[k].seq # popLog[i].seq
    /\ \A v, w \in Workers :
          (v # w /\ current[v] # NoEntry) => current[v].seq # current[w].seq

\* C3 witness: two workers each popped an entry and both were dispatched.
C3_Witness ==
    /\ PoppedBy("w1") # {} /\ PoppedBy("w2") # {}
    /\ DispatchedBy("w1") # {} /\ DispatchedBy("w2") # {}

\* C4: an appended entry leaves the queue only when a worker's blpop returns
\* it, and when the broker stays reachable and the worker stays running
\* every waiting producer entry is eventually dispatched.
C4_NeverLost ==
    /\ [][\A i \in DOMAIN queue :
            \/ queue[i] \in Range(queue')
            \/ \E w \in Workers :
                  wpc[w] = "pop" /\ wpc'[w] = "popped" /\ current'[w] = queue[i]]_vars
    /\ (<>[](brokerUp /\ running["w1"]))
          => \A n \in 1..MaxEntries : [](Waiting(n) => <>Dispatched(n))

\* C4 witness: the worker handled a transport failure, reconnected and is
\* dispatching an entry while another one still waits in the queue.
C4_Witness ==
    /\ wpc["w1"] = "mid" /\ handlerTrace["w1"] # <<>> /\ everDown
    /\ \E n \in 1..MaxEntries : Waiting(n)

\* C5: a single worker dispatches producer entries in the order of their
\* append: pops and dispatches follow increasing append numbers.
C5_FifoOrder ==
    /\ \A i, j \in DOMAIN dispatchLog :
          i < j => dispatchLog[i].seq < dispatchLog[j].seq
    /\ \A i, j \in DOMAIN popLog : i < j => popLog[i].seq < popLog[j].seq

\* C5 witness: two entries dispatched around a skipped one, after an outage.
C5_Witness ==
    /\ Len(dispatchLog) = 2 /\ Len(popLog) = 3
    /\ handlerTrace["w1"] # <<>> /\ everDown

\* C6: after a blpop raised a transport error, and however many reconnects
\* failed since, a worker nobody asked to stop is still running its loop.
C6_TransportErrorKeepsRunning ==
    \A w \in Workers :
        ((lastPop[w] = "error" \/ failedReconnects[w] > 0) /\ ~stopRequested[w])
            => running[w] /\ InLoop(w)

\* C6 witness: the bounded count of consecutive failed reconnects is reached
\* and the worker is about to pop again.
C6_Witness ==
    /\ failedReconnects["w1"] = MaxFailCount /\ ~stopRequested["w1"]
    /\ wpc["w1"] = "pop" /\ running["w1"]

C8_StopLeadsToStopped ==
    \A w \in SingleWorker : stopRequested[w] ~> (wpc[w] \in {"stopped", "exited"})

\* C9: a failed initial connection ends start() with the running flag false
\* and nothing popped or dispatched, and start() returns in no other way
\* unless a stop was requested.
C9_FatalStartupOnly ==
    \A w \in Workers :
        /\ startResult[w] = "failed"
              => /\ wpc[w] = "exited" /\ ~running[w]
                 /\ PoppedBy(w) = {} /\ DispatchedBy(w) = {}
        /\ (wpc[w] \in {"exited", "stopped"} /\ ~stopRequested[w])
              => startResult[w] = "failed"

\* C9 witness: start() returned on a failed initial connection, no stop
\* requested, while an entry waits in the queue.
C9_Witness ==
    /\ wpc["w1"] = "exited" /\ ~stopRequested["w1"] /\ queue # <<>>

SendsOf(n, rtype) ==
    {i \in DOMAIN sendLog : sendLog[i].seq = n /\ sendLog[i].recipient_type = rtype}

\* C10: when the send to the assigned developer fails, the send to the
\* reporting product owner of the same envelope is still attempted, and no
\* exception leaves process_event into the worker loop.
C10_SecondRecipientStillTried ==
    /\ \A i \in DOMAIN dispatchLog :
          LET d == dispatchLog[i] IN
          /\ ~d.raised
          /\ ((\E k \in SendsOf(d.seq, "assigned_to") : sendLog[k].result = "False")
                /\ Truthy(d.reporting))
                => \E k \in SendsOf(d.seq, "reporting_to") : sendLog[k].to = d.reporting
    /\ \A w \in Workers : pending[w] \notin {"Exception", "raised"}

\* C10 witness: the first send failed and the second one succeeded.
C10_Witness ==
    \E i \in DOMAIN dispatchLog :
        /\ \E k \in SendsOf(dispatchLog[i].seq, "assigned_to") : sendLog[k].result = "False"
        /\ \E k \in SendsOf(dispatchLog[i].seq, "reporting_to") : sendLog[k].result = "True"

NonEmpty(v) == v \notin {None, ""}
SendCount(n, rtype, email) == IF NonEmpty(email) THEN 1 ELSE 0

\* C11: for each dispatched envelope there is exactly one send attempt to
\* assigned_to_email when it is non-empty and exactly one to
\* reporting_to_email when it is non-empty, addressed to that value, and no
\* other send attempt; an envelope with neither produces no attempt and no
\* error.
C11_OneSendPerRecipient ==
    /\ \A i \in DOMAIN dispatchLog :
          LET d == dispatchLog[i] IN
          /\ ~d.raised
          /\ Cardinality(SendsOf(d.seq, "assigned_to"))
                = SendCount(d.seq, "assigned_to", d.assigned)
          /\ Cardinality(SendsOf(d.seq, "reporting_to"))
                = SendCount(d.seq, "reporting_to", d.reporting)
          /\ \A k \in SendsOf(d.seq, "assigned_to") : sendLog[k].to = d.assigned
          /\ \A k \in SendsOf(d.seq, "reporting_to") : sendLog[k].to = d.reporting
    /\ \A k \in DOMAIN sendLog :
          /\ sendLog[k].recipient_type \in {"assigned_to", "reporting_to"}
          /\ \/ Dispatched(sendLog[k].seq)
             \/ \E w \in Workers :
                   /\ wpc[w] = "mid" /\ current[w].seq = sendLog[k].seq
                   /\ sendLog[k].recipient_type = "assigned_to"

\* C11 witness: one envelope with an empty and a missing e-mail dispatched
\* without any send, and one envelope dispatched with a send to each recipient.
C11_Witness ==
    /\ \E i \in DOMAIN dispatchLog :
          /\ dispatchLog[i].assigned = "" /\ dispatchLog[i].reporting = None
          /\ dispatchLog[i].task_id # None
          /\ SendsOf(dispatchLog[i].seq, "assigned_to") = {}
          /\ SendsOf(dispatchLog[i].seq, "reporting_to") = {}
    /\ \E i \in DOMAIN dispatchLog :
          /\ SendsOf(dispatchLog[i].seq, "assigned_to") # {}
          /\ SendsOf(dispatchLog[i].seq, "reporting_to") # {}

\* C12: a popped entry that json.loads rejects is gone from the queue and
\* never reaches the dispatcher (no send, no dispatch record); the handler
\* only logs and sleeps, without reconnecting and without touching the
\* running flag; and with the broker reachable and the worker running the
\* entries waiting behind it are still popped and dispatched.
C12_MalformedSkipped ==
    /\ [](\A i \in DOMAIN popLog :
            ~popLog[i].decodable
              => /\ ~Dispatched(popLog[i].seq)
                 /\ \A k \in DOMAIN sendLog : sendLog[k].seq # popLog[i].seq
                 /\ \A k \in DOMAIN queue : queue[k].seq # popLog[i].seq)
    /\ [][\A w \in SingleWorker :
            (pending[w] = "JSONDecodeError" /\ pending'[w] # "JSONDecodeError")
              => /\ handlerTrace'[w] = <<Sleep(OTHER_SLEEP)>>
                 /\ running'[w] = running[w]
                 /\ es_redis_client'[w] = es_redis_client[w]
                 /\ redis_client'[w] = redis_client[w]
                 /\ failedReconnects'[w] = failedReconnects[w]
                 /\ wpc'[w] = "loop"]_vars
    /\ (<>[](brokerUp /\ running["w1"]))
          => \A n \in 1..MaxEntries :
                []((pending["w1"] = "JSONDecodeError" /\ Waiting(n)) => <>Dispatched(n))

\* C12 witness: an undecodable entry was popped and skipped, and an entry
\* appended after it was popped and dispatched by the same worker.
C12_Witness ==
    /\ ~stopRequested["w1"] /\ running["w1"]
    /\ \E i, j \in DOMAIN popLog :
          /\ i < j /\ ~popLog[i].decodable
          /\ Dispatched(popLog[j].seq)
          /\ handlerTrace["w1"] = <<Sleep(OTHER_SLEEP)>>

\* C13: a decoded entry without task_id or without event_type gets no send
\* attempt, whatever recipient e-mails it carries.
C13_MissingIdSkipped ==
    \A i \in DOMAIN dispatchLog :
        (dispatchLog[i].task_id = None \/ dispatchLog[i].event_type = None)
            => \A k \in DOMAIN sendLog : sendLog[k].seq # dispatchLog[i].seq

\* C14: with the mail transport unconfigured, a send attempt opens no SMTP
\* connection and reports success for the recipient.
C14_UnconfiguredReportsSuccess ==
    \A k \in DOMAIN sendLog :
        ~smtpConfigured => (~sendLog[k].smtp /\ sendLog[k].result = "True")

\* C15: every dispatched envelope yields a summary whose successes plus
\* failures equal the number of resolved recipients.
C15_SummaryCounts ==
    \A i \in DOMAIN dispatchLog :
        LET d == dispatchLog[i] IN
        /\ d.summary # None
        /\ d.summary.success + d.summary.failure
              = SendCount(d.seq, "assigned_to", d.assigned)
                + SendCount(d.seq, "reporting_to", d.reporting)

Appended(r) == Finished(r) /\ req[r].appends = 1 /\ EntriesOf(req[r].op) # {}
TheEntry(r) == JsonLoads(queue[CHOOSE i \in EntriesOf(req[r].op) : TRUE].text)
Pair(old, new) == [kind |-> "pair", old |-> old, new |-> new]
Bare(new) == [kind |-> "bare", old |-> None, new |-> new]

\* C16: the envelope of an update that changed the status has
\* changes.status = {old: status before the update, new: new status}, the
\* bare new value for every other field the update changed, and the reason
\* that was supplied.
C16_StatusChangeEnvelope ==
    \A r \in Slots :
        (/\ Appended(r) /\ req[r].kind = "update"
         /\ "status" \in DOMAIN req[r].info.upd
         /\ req[r].info.upd["status"] # req[r].info.pre_status)
            => LET e == TheEntry(r)
                   i == req[r].info
               IN /\ e.event_type = "task_updated"
                  /\ "status" \in DOMAIN e.changes
                  /\ e.changes["status"] = Pair(i.pre_status, i.upd["status"])
                  /\ \A f \in DOMAIN i.upd \ {"status"} :
                        i.upd[f] # i.loaded[f]
                          => f \in DOMAIN e.changes /\ e.changes[f] = Bare(i.upd[f])
                  /\ Truthy(i.supplied) => e.reason = i.supplied

\* C16 witness: a Developer moved task 1 from open to in_review with the
\* reason "ready for QA".
C16_Witness ==
    \E r \in Slots :
        /\ Appended(r) /\ req[r].kind = "update"
        /\ req[r].info.role = "Developer"
        /\ req[r].info.pre_status = "open"
        /\ req[r].info.supplied = "ready for QA"
        /\ TheEntry(r).changes = [status |-> Pair("open", "in_review")]
        /\ TheEntry(r).reason = "ready for QA"
        /\ TheEntry(r).updated_by_role = "Developer"

\* C17: changes of a task_updated envelope has a key only for a field whose
\* value differs from the one the task had before the update.
C17_OnlyChangedFields ==
    \A r \in Slots :
        (Appended(r) /\ req[r].kind = "update")
            => \A f \in DOMAIN TheEntry(r).changes :
                  req[r].info.upd[f] # req[r].info.loaded[f]

\* C18: whatever the event kind, an appended envelope whose task has an
\* assignee (a reporting owner) the organization service knows, and whose
\* lookup did not fail, carries that person's e-mail address.
C18_RecipientsResolved ==
    \A r \in Slots :
        Appended(r)
            => LET e == TheEntry(r)
                   failing == req[r].info.failing
               IN /\ (/\ Truthy(e.assigned_to_id) /\ "assigned" \notin failing
                      /\ DevEmail(e.assigned_to_id) # None)
                        => e.assigned_to_email = DevEmail(e.assigned_to_id)
                  /\ (/\ Truthy(e.reporting_to_id) /\ "reporting" \notin failing
                      /\ PoEmail(e.reporting_to_id) # None)
                        => e.reporting_to_email = PoEmail(e.reporting_to_id)

OneLookupFailed(r) ==
    /\ Finished(r) /\ req[r].kind \in {"create", "update"}
    /\ req[r].failing \in {{"assigned"}, {"reporting"}}
DispatchesOf(op) == {i \in DOMAIN dispatchLog : dispatchLog[i].op = op}

\* C19: when the lookup of exactly one recipient fails in a create or an
\* update, the operation succeeds and (the queue being reachable) appends its
\* envelope, that recipient's e-mail field is empty and the other one is
\* resolved, and the dispatcher makes no send attempt for the empty one.
C19_LookupFailureIsolated ==
    \A r \in Slots :
        OneLookupFailed(r)
            => LET q == req[r]
                   lost == IF q.failing = {"assigned"} THEN "assigned_to" ELSE "reporting_to"
                   kept == IF q.failing = {"assigned"} THEN "reporting_to" ELSE "assigned_to"
               IN /\ q.outcome = "ok" /\ q.committed
                  /\ ~everDown => q.appends = 1
                  /\ EntriesOf(q.op) # {}
                        => /\ TheEntry(r)[lost \o "_email"] = None
                           /\ TheEntry(r)[kept \o "_email"]
                                 = IF kept = "assigned_to"
                                   THEN DevEmail(TheEntry(r).assigned_to_id)
                                   ELSE PoEmail(TheEntry(r).reporting_to_id)
                           /\ TheEntry(r)[kept \o "_email"] # None
                  /\ \A i \in DispatchesOf(q.op) :
                        /\ SendsOf(dispatchLog[i].seq, lost) = {}
                        /\ \E k \in SendsOf(dispatchLog[i].seq, kept) :
                              sendLog[k].to = IF kept = "assigned_to"
                                              THEN dispatchLog[i].assigned
                                              ELSE dispatchLog[i].reporting

\* C19 witness: an update whose assignee lookup failed succeeded, and its
\* envelope was dispatched with a send to the reporting owner only.
C19_Witness ==
    \E r \in Slots :
        /\ OneLookupFailed(r) /\ req[r].kind = "update"
        /\ req[r].failing = {"assigned"} /\ req[r].outcome = "ok"
        /\ \E i \in DispatchesOf(req[r].op) :
              /\ dispatchLog[i].assigned = None
              /\ SendsOf(dispatchLog[i].seq, "assigned_to") = {}
              /\ \E k \in SendsOf(dispatchLog[i].seq, "reporting_to") :
                    sendLog[k].to = "po3@x.com"

\* C20: in an appended task_updated envelope with a status transition,
\* changes.status.old is the status the task had immediately before that
\* update was committed, also with several updates in flight.
C20_OldStatusIsPreCommit ==
    \A r \in Slots :
        (/\ Appended(r) /\ req[r].kind = "update"
         /\ "status" \in DOMAIN TheEntry(r).changes
         /\ TheEntry(r).changes["status"].kind = "pair")
            => TheEntry(r).changes["status"].old = req[r].info.pre_status

\* C21: a create, update or delete that finished without its mutation being
\* committed (rejected, or its database write failed) has appended no entry
\* and the queue holds no entry of it.
C21_OnlyCommittedAppend ==
    \A r \in Slots :
        (Finished(r) /\ ~req[r].committed)
            => req[r].appends = 0 /\ EntriesOf(req[r].op) = {}

DispatcherKeys ==
    {"event_type", "task_id", "task_title", "assigned_to_email",
     "reporting_to_email", "updated_by_id", "updated_by_email",
     "updated_by_role", "organization_name", "changes", "reason"}

Phase(w) ==
    IF wpc[w] \in {"idle", "stopped", "exited"} THEN "Stopped"
    ELSE IF wpc[w] = "starting" THEN "Starting"
    ELSE IF wpc[w] = "except" /\ pending[w] \in TransportErrors THEN "Reconnecting"
    ELSE "Running"

LifecycleSteps ==
    {<<"Stopped", "Starting">>, <<"Starting", "Running">>, <<"Starting", "Stopped">>,
     <<"Running", "Reconnecting">>, <<"Reconnecting", "Running">>,
     <<"Running", "Stopped">>}

\* C23: a worker changes lifecycle state only along Stopped -> Starting ->
\* Running -> (Reconnecting <-> Running) -> Stopped (Starting ends in Stopped
\* when the initial connection fails); it calls blpop only after the initial
\* connection succeeded; it enters Reconnecting only from a blpop call that
\* raised a transport error; and a blpop that returns no entry leaves it
\* Running with no reconnect, no dispatch, no send and no error.
C23_Lifecycle ==
    /\ [][\A w \in SingleWorker :
            /\ Phase(w)' # Phase(w) => <<Phase(w), Phase(w)'>> \in LifecycleSteps
            /\ Phase(w) = "Stopped" /\ Phase(w)' = "Starting" => wpc[w] = "idle"
            /\ wpc'[w] \in {"pop", "popped"} => startResult[w] = "connected"
            /\ (Phase(w) # "Reconnecting" /\ Phase(w)' = "Reconnecting")
                  => /\ wpc[w] = "pop" /\ Phase(w) = "Running"
                     /\ lastPop'[w] = "error" /\ popLog' = popLog
            /\ (wpc[w] = "pop" /\ brokerUp /\ queue = <<>> /\ wpc'[w] \notin {"pop", "stopped"})
                  => /\ Phase(w)' = "Running" /\ wpc'[w] = "loop"
                     /\ running'[w] = running[w] /\ pending'[w] = ""
                     /\ handlerTrace'[w] = handlerTrace[w]
                     /\ es_redis_client'[w] = es_redis_client[w]
                     /\ redis_client'[w] = redis_client[w]
                     /\ <<popLog, dispatchLog, sendLog>>' = <<popLog, dispatchLog, sendLog>>]_vars
    /\ [](\A i \in DOMAIN popLog : startResult[popLog[i].w] = "connected")

\* C23 witness: the worker popped an entry, went through Reconnecting and
\* back, had an idle tick and was stopped.
C23_Witness ==
    /\ wpc["w1"] = "stopped" /\ lastPop["w1"] = "idle"
    /\ handlerTrace["w1"] \notin {<<>>, <<Sleep(OTHER_SLEEP)>>}
    /\ PoppedBy("w1") # {}

Handled(w, exc) == wpc[w] = "except" /\ pending[w] = exc /\ wpc'[w] # "except"

\* C24: after a blpop that raised a transport timeout the handler's first
\* step is the reconnect attempt (a sleep follows only when it failed);
\* after a connection error the handler sleeps RECONNECT_SLEEP seconds and
\* then attempts the reconnect; either way the worker goes back to the loop
\* with its running flag untouched, whether or not the reconnect succeeded,
\* and calls blpop again unless a stop was requested.
C24_ReconnectPolicy ==
    /\ [][\A w \in SingleWorker :
            /\ Handled(w, "TimeoutError")
                  => /\ Head(handlerTrace'[w]) = Reconnect
                     /\ handlerTrace'[w] \in {<<Reconnect>>,
                                              <<Reconnect, Sleep(RECONNECT_SLEEP)>>}
                     /\ (handlerTrace'[w] = <<Reconnect>>) = brokerUp
                     /\ wpc'[w] = "loop" /\ running'[w] = running[w]
            /\ Handled(w, "ConnectionError")
                  => /\ handlerTrace'[w] = <<Sleep(RECONNECT_SLEEP), Reconnect>>
                     /\ wpc'[w] = "loop" /\ running'[w] = running[w]
            /\ (Handled(w, "TimeoutError") \/ Handled(w, "ConnectionError"))
                  => redis_client'[w] # None]_vars
    /\ \A w \in SingleWorker :
          (wpc[w] = "except" /\ pending[w] \in {"TimeoutError", "ConnectionError"})
             ~> (wpc[w] = "pop" \/ stopRequested[w])

\* C24 witness: a reconnect failed, the pop was retried and timed out at the
\* transport, the immediate reconnect succeeded and the pop is retried again.
C24_Witness ==
    /\ wpc["w1"] = "pop" /\ lastPop["w1"] = "error" /\ ~stopRequested["w1"]
    /\ failedReconnects["w1"] >= 1 /\ handlerTrace["w1"] = <<Reconnect>>

InFlight(w, n) == wpc[w] \in {"popped", "mid"} /\ current[w].seq = n

\* C25: every entry a worker popped and could decode has been dispatched to
\* completion, or is the one entry that worker is dispatching right now: the
\* worker never pops again, and never leaves its loop on a stop, with a
\* popped entry undispatched.
C25_DispatchBeforeNextPop ==
    \A w \in SingleWorker :
        \A i \in PoppedBy(w) :
            popLog[i].decodable
                => Dispatched(popLog[i].seq) \/ InFlight(w, popLog[i].seq)

EnqueueReturned(r) == req[r].pc = "lookup" /\ req'[r].pc = "done"
PopReturned(w) == wpc[w] = "pop" /\ wpc'[w] = "popped" /\ current'[w] = Head(queue)

\* C26: an enqueue call made while the broker is reachable appends its entry
\* at the tail, whatever the length of the queue, the state of the worker and
\* the state of the producer's client; and the queue changes in two ways
\* only: an entry is added at the tail, or a worker's blpop takes the head.
C26_AppendIndependentOfConsumer ==
    /\ [][\A r \in Slots :
            (EnqueueReturned(r) /\ brokerUp)
               => /\ req'[r].enq = "appended"
                  /\ Len(queue') = Len(queue) + 1
                  /\ SubSeq(queue', 1, Len(queue)) = queue
                  /\ queue'[Len(queue')].op = req'[r].op]_vars
    /\ [][\/ queue' = queue
          \/ Len(queue') = Len(queue) + 1 /\ SubSeq(queue', 1, Len(queue)) = queue
          \/ queue # <<>> /\ queue' = Tail(queue) /\ \E w \in Workers : PopReturned(w)]_vars

\* C26 witness: the worker gave up at start-up, and two requests have each
\* appended an entry behind what the queue already held.
C26_Witness ==
    /\ wpc["w1"] = "exited" /\ Len(queue) = MaxOps
    /\ \E r \in Slots : Finished(r) /\ req[r].enq = "appended" /\ req[r].op = MaxOps

EntryIndex(r) == CHOOSE i \in EntriesOf(req[r].op) : TRUE
SameTaskCommitted(r1, r2) ==
    /\ r1 # r2 /\ Appended(r1) /\ Appended(r2)
    /\ req[r1].committed /\ req[r2].committed
    /\ req[r1].task_id = req[r2].task_id

\* C27: when two requests that mutated the same task have both appended
\* their envelope, the envelope of the mutation committed first is ahead of
\* the other one in the queue; so no envelope of a task follows its
\* task_deleted envelope.
C27_AppendOrderIsCommitOrder ==
    \A r1, r2 \in Slots :
        (SameTaskCommitted(r1, r2)
           /\ req[r1].info.commit_no < req[r2].info.commit_no)
            => EntryIndex(r1) < EntryIndex(r2)

Returned(r) == req'[r] # req[r] /\ req'[r].pc = "done"

\* C28: an enqueue call made while Redis is reachable appends its entry and
\* leaves the producer with a client, also when the client was unset since a
\* failed start-up or the previous call failed; a request whose enqueue
\* found Redis down has no entry, and a step adds an entry to the queue only
\* for the request whose enqueue call is returning in that step.
C28_ProducerRecovers ==
    /\ [][\A r \in Slots :
            (Returned(r) /\ req'[r].enq # "not_reached" /\ brokerUp)
               => /\ req'[r].enq = "appended"
                  /\ ts_redis_client' = Client
                  /\ queue' # <<>> /\ queue'[Len(queue')].op = req'[r].op]_vars
    /\ [][\A i \in DOMAIN queue' :
            \/ queue'[i] \in Range(queue)
            \/ \E r \in Slots :
                  Returned(r) /\ brokerUp /\ req'[r].op = queue'[i].op]_vars
    /\ [](\A r \in Slots :
            (Finished(r) /\ QueueFailed(req[r])) => EntriesOf(req[r].op) = {})

\* C28 witness: Redis was down when the service started and has been up
\* since; two mutations were committed, the first while it was down; the
\* queue holds the entry of the second one only.
C28_Witness ==
    /\ everDown /\ outages = 0 /\ brokerUp /\ audit_log = 2
    /\ Len(queue) = 1 /\ queue[1].op = 2
    /\ \E r \in Slots : Finished(r) /\ req[r].op = 2 /\ req[r].enq = "appended"

RowsOf(mail) == {i \in DOMAIN email_queue : email_queue[i].mail = mail}
DeliveriesOf(mail) ==
    {k \in DOMAIN smtp_log : smtp_log[k].mail = mail /\ smtp_log[k].delivered}

\* C29: in the Celery path every mail handed to queue_email has a single
\* row of email_queue and is delivered over SMTP at most once.
C29_CelerySendsOnce ==
    \A mail \in 1..MaxMails :
        /\ Cardinality(RowsOf(mail)) <= 1
        /\ Cardinality(DeliveriesOf(mail)) <= 1

AttemptsOf(id, retries) ==
    {k \in DOMAIN smtp_log : smtp_log[k].email_id = id /\ smtp_log[k].retries = retries}

\* C30: every execution of send_email_task that is a retry (the task was
\* published again after a failed send) makes an SMTP send attempt for its
\* row.
C30_RetryMakesNewAttempt ==
    \A i \in DOMAIN celery_results :
        celery_results[i].retries >= 1
            => AttemptsOf(celery_results[i].email_id, celery_results[i].retries) # {}

====
